---- MODULE Spec2Model ----
(***************************************************************************)
(* Woodcutter: the 2D outline cleanup pipeline (shapeCleanup.tsx), the     *)
(* shape normaliser (autoScaleShape), the import / cleanup-mode state of   *)
(* the shape panel (ShapeSelector.tsx, Settings.tsx) and the export of the *)
(* mesh (exportGltf.ts).                                                   *)
(*                                                                         *)
(* Numbers.  A coordinate is an integer count of lattice units; one        *)
(* lattice unit stands for 0.001 in the program's coordinates.  Lengths    *)
(* are compared through their squares and quotients by cross              *)
(* multiplication, so every comparison the code makes is made exactly (the *)
(* rounding of IEEE doubles is not modelled).  A tolerance is a fraction   *)
(* tolN / tolD of lattice units (of squared lattice units for the          *)
(* cross-product tolerance).                                               *)
(*                                                                         *)
(* Shapes.  A three.js Shape built by moveTo / lineTo is the list of the   *)
(* vertices handed to those calls: moveTo only sets the current point,     *)
(* each lineTo adds a LineCurve from the current point to its argument.    *)
(* A shape carries a denominator: the vertex <<a, b>> of a shape with      *)
(* denominator d is the point (a / d, b / d) in lattice units.             *)
(*                                                                         *)
(* Loops.  A for loop of the code over i = lo .. hi is an operator that    *)
(* runs the first half of the range, then the second half from the state   *)
(* the first half left, so that the depth of evaluation grows with the     *)
(* logarithm of the range.  The value of the first half is inspected (a    *)
(* test that never succeeds) before the second half starts, which makes    *)
(* TLC evaluate it at that point; the order of the iterations is that of   *)
(* the code.                                                               *)
(***************************************************************************)
EXTENDS Integers, Sequences, FiniteSets, TLC

VARIABLES inShape, inMode, outShape, reShape, scaledShape, contour, pc,
          stagePts, stageTolN, stageTolD, stageOut, stageRe, stageDist,
          stageHit, stage,
          originalShape, shape, cleanupMethod, effectPending, reads,
          filename, lastSelect, svgPreview, download, imported, shown,
          meshMounted, meshSize, meshScale, meshMaterial, exporting,
          exportCount, scaleBefore, materialBefore, overlapped

harnessVars == <<inShape, inMode, outShape, reShape, scaledShape, contour,
                 pc>>
stageVars == <<stagePts, stageTolN, stageTolD, stageOut, stageRe, stageDist,
               stageHit, stage>>
appVars == <<originalShape, shape, cleanupMethod, effectPending, reads,
             filename, lastSelect, svgPreview, download, imported, shown>>
exportVars == <<meshMounted, meshSize, meshScale, meshMaterial, exporting,
                exportCount, scaleBefore, materialBefore, overlapped>>
vars == <<harnessVars, stageVars, appVars, exportVars>>

(* ---------------------------------------------------------------------- *)
(* Bounds                                                                 *)
(* ---------------------------------------------------------------------- *)
MaxCoord == 2
MaxLen == 4
MaxTol == 1
MaxAggLen == 3
MaxTriCoord == 2
MaxReads == 2
MaxExports == 3
MaxMeshSize == 3

(* ---------------------------------------------------------------------- *)
(* Arithmetic helpers                                                     *)
(* ---------------------------------------------------------------------- *)
Abs(a) == IF a < 0 THEN -a ELSE a

Max2(a, b) == IF a > b THEN a ELSE b

Min2(a, b) == IF a < b THEN a ELSE b

\* Vector2.distanceTo, squared
DistSq(p, q) == (p[1] - q[1]) * (p[1] - q[1]) + (p[2] - q[2]) * (p[2] - q[2])

(* ---------------------------------------------------------------------- *)
(* three.js Shape: construction and getPoints                             *)
(* ---------------------------------------------------------------------- *)
\* new Shape(); moveTo(points[0]); lineTo(points[i]) for the rest
createShapeFromPoints(points) == [verts |-> points, den |-> 1]

RECURSIVE dropRepeats(_, _, _, _)
\* CurvePath.getPoints skips a point equal to the last point it emitted:
\* the loop over verts[lo..hi], continuing from result
dropRepeats(verts, lo, hi, result) ==
    IF lo > hi THEN result
    ELSE IF lo = hi
    THEN IF verts[lo] = result[Len(result)] THEN result
         ELSE Append(result, verts[lo])
    ELSE LET mid == (lo + hi) \div 2
             left == dropRepeats(verts, lo, mid, result)
         IN  IF Len(left) = 0 THEN left
             ELSE dropRepeats(verts, mid + 1, hi, left)

\* shape.getPoints(): the end points of the shape's line curves in order,
\* without consecutive repeats; a shape with no curve (no lineTo) has none
getPoints(s) ==
    IF Len(s.verts) < 2 THEN <<>>
    ELSE dropRepeats(s.verts, 2, Len(s.verts), <<s.verts[1]>>)

(* ---------------------------------------------------------------------- *)
(* Cleanup stages                                                         *)
(* ---------------------------------------------------------------------- *)
RECURSIVE dedupLoopAtLeast(_, _, _, _, _, _)
\* dedupLoop keeping a point at distance >= tolerance
dedupLoopAtLeast(points, lo, hi, result, tolN, tolD) ==
    IF lo > hi THEN result
    ELSE IF lo = hi
    THEN LET prev == result[Len(result)]
             curr == points[lo]
         IN  IF DistSq(prev, curr) * tolD * tolD >= tolN * tolN
             THEN Append(result, curr)
             ELSE result
    ELSE LET mid == (lo + hi) \div 2
             left == dedupLoopAtLeast(points, lo, mid, result, tolN, tolD)
         IN  IF Len(left) = 0 THEN left
             ELSE dedupLoopAtLeast(points, mid + 1, hi, left, tolN, tolD)

RECURSIVE dedupLoop(_, _, _, _, _, _)
\* the loop of removeDuplicatePoints over points[lo..hi], continuing from
\* result
dedupLoop(points, lo, hi, result, tolN, tolD) ==
    IF lo > hi THEN result
    ELSE IF lo = hi
    THEN LET prev == result[Len(result)]
             curr == points[lo]
         IN  IF DistSq(prev, curr) * tolD * tolD > tolN * tolN
             THEN Append(result, curr)
             ELSE result
    ELSE LET mid == (lo + hi) \div 2
             left == dedupLoop(points, lo, mid, result, tolN, tolD)
         IN  IF Len(left) = 0 THEN left
             ELSE dedupLoop(points, mid + 1, hi, left, tolN, tolD)

\* the loop started one point late: the second point is always kept
removeDuplicatePointsFromThird(points, tolN, tolD) ==
    IF Len(points) < 2 THEN points
    ELSE dedupLoop(points, 3, Len(points), <<points[1], points[2]>>, tolN,
                   tolD)

removeDuplicatePoints(points, tolN, tolD) ==
    IF Len(points) = 0 THEN points
    ELSE dedupLoop(points, 2, Len(points), <<points[1]>>, tolN, tolD)

\* the cross product without Math.abs
crossProductSigned(prev, curr, next) ==
    (curr[1] - prev[1]) * (next[2] - prev[2])
    - (next[1] - prev[1]) * (curr[2] - prev[2])

crossProduct(prev, curr, next) ==
    Abs((curr[1] - prev[1]) * (next[2] - prev[2])
        - (next[1] - prev[1]) * (curr[2] - prev[2]))

RECURSIVE collinearLoopPushNext(_, _, _, _, _, _)
\* collinearLoop keeping the following point in place of the current one
collinearLoopPushNext(points, lo, hi, result, tolN, tolD) ==
    IF lo > hi THEN result
    ELSE IF lo = hi
    THEN IF crossProduct(points[lo - 1], points[lo], points[lo + 1]) * tolD
            > tolN
         THEN Append(result, points[lo + 1])
         ELSE result
    ELSE LET mid == (lo + hi) \div 2
             left == collinearLoopPushNext(points, lo, mid, result, tolN,
                                           tolD)
         IN  IF Len(left) = 0 THEN left
             ELSE collinearLoopPushNext(points, mid + 1, hi, left, tolN, tolD)

RECURSIVE collinearLoop(_, _, _, _, _, _)
\* the loop of removeCollinearPoints over points[lo..hi], continuing from
\* result
collinearLoop(points, lo, hi, result, tolN, tolD) ==
    IF lo > hi THEN result
    ELSE IF lo = hi
    THEN IF crossProduct(points[lo - 1], points[lo], points[lo + 1]) * tolD
            > tolN
         THEN Append(result, points[lo])
         ELSE result
    ELSE LET mid == (lo + hi) \div 2
             left == collinearLoop(points, lo, mid, result, tolN, tolD)
         IN  IF Len(left) = 0 THEN left
             ELSE collinearLoop(points, mid + 1, hi, left, tolN, tolD)

\* removeCollinearPoints without the final push of the last point
removeCollinearPointsNoLast(points, tolN, tolD) ==
    IF Len(points) <= 2 THEN points
    ELSE collinearLoop(points, 2, Len(points) - 1, <<points[1]>>, tolN, tolD)

removeCollinearPoints(points, tolN, tolD) ==
    IF Len(points) <= 2 THEN points
    ELSE Append(collinearLoop(points, 2, Len(points) - 1, <<points[1]>>,
                              tolN, tolD),
                points[Len(points)])

\* The squared length of the segment, the common denominator of the squared
\* distances that pointToLineDistance returns for that segment (1 when the
\* segment has length zero)
lineDen(lineStart, lineEnd) ==
    LET lenSq == DistSq(lineStart, lineEnd)
    IN  IF lenSq = 0 THEN 1 ELSE lenSq

\* the distance to the infinite line, without clamping param to [0, 1]
pointToLineDistanceUnclamped(point, lineStart, lineEnd) ==
    LET A == point[1] - lineStart[1]
        B == point[2] - lineStart[2]
        C == lineEnd[1] - lineStart[1]
        D == lineEnd[2] - lineStart[2]
        lenSq == C * C + D * D
    IN  IF lenSq = 0 THEN A * A + B * B
        ELSE (A * D - B * C) * (A * D - B * C)

\* pointToLineDistance(point, lineStart, lineEnd) squared, times
\* lineDen(lineStart, lineEnd).  With param in [0, 1] the foot of the
\* perpendicular is at squared distance (A*D - B*C)^2 / lenSq.
pointToLineDistance(point, lineStart, lineEnd) ==
    LET A == point[1] - lineStart[1]
        B == point[2] - lineStart[2]
        C == lineEnd[1] - lineStart[1]
        D == lineEnd[2] - lineStart[2]
        dot == A * C + B * D
        lenSq == C * C + D * D
    IN  IF lenSq = 0 THEN A * A + B * B
        ELSE IF dot < 0 THEN DistSq(point, lineStart) * lenSq
        ELSE IF dot > lenSq THEN DistSq(point, lineEnd) * lenSq
        ELSE (A * D - B * C) * (A * D - B * C)

RECURSIVE maxLoopLastWins(_, _, _, _)
\* maxLoop with distance >= maxDistance: the last of equal distances wins
maxLoopLastWins(points, lo, hi, m) ==
    IF lo > hi THEN m
    ELSE IF lo = hi
    THEN LET distance == pointToLineDistance(points[lo], points[1],
                                             points[Len(points)])
         IN  IF distance >= m[1] THEN <<distance, lo>> ELSE m
    ELSE LET mid == (lo + hi) \div 2
             left == maxLoopLastWins(points, lo, mid, m)
         IN  IF left[1] < 0 THEN left
             ELSE maxLoopLastWins(points, mid + 1, hi, left)

RECURSIVE maxLoop(_, _, _, _)
\* the loop of douglasPeucker over points[lo..hi], continuing from
\* m = <<maxDistance, maxIndex>>; indices count from 1
maxLoop(points, lo, hi, m) ==
    IF lo > hi THEN m
    ELSE IF lo = hi
    THEN LET distance == pointToLineDistance(points[lo], points[1],
                                             points[Len(points)])
         IN  IF distance > m[1] THEN <<distance, lo>> ELSE m
    ELSE LET mid == (lo + hi) \div 2
             left == maxLoop(points, lo, mid, m)
         IN  IF left[1] < 0 THEN left
             ELSE maxLoop(points, mid + 1, hi, left)

\* the two halves joined in the wrong order
dpJoinRightFirst(left, right) == right \o SubSeq(left, 1, Len(left) - 1)

\* left.slice(0, -1).concat(right): the split point appears once
dpJoin(left, right) == SubSeq(left, 1, Len(left) - 1) \o right

\* the chord ending one point early
dpCollapseOffByOne(points) == <<points[1], points[Len(points) - 1]>>

\* [start, end]: every intermediate point is within tolerance of the chord
dpCollapse(points) == <<points[1], points[Len(points)]>>

\* a split only when the distance exceeds twice the tolerance
dpExceedsTwice(maxDistance, start, end, tolN, tolD) ==
    maxDistance * tolD * tolD > 4 * tolN * tolN * lineDen(start, end)

\* maxDistance > tolerance, maxDistance being the squared distance times
\* lineDen(start, end)
dpExceeds(maxDistance, start, end, tolN, tolD) ==
    maxDistance * tolD * tolD > tolN * tolN * lineDen(start, end)

RECURSIVE douglasPeuckerShortChord(_, _, _)
\* the chord ending at points[length - 2]: distances are measured to the
\* segment from the first point to the point before the last
douglasPeuckerShortChord(points, tolN, tolD) ==
    IF Len(points) <= 2 THEN points
    ELSE LET start == points[1]
             end == points[Len(points) - 1]
             m == maxLoop(SubSeq(points, 1, Len(points) - 1), 2,
                          Len(points) - 2, <<0, 0>>)
             maxDistance == m[1]
             maxIndex == m[2]
         IN  IF dpExceeds(maxDistance, start, end, tolN, tolD)
             THEN LET left == douglasPeuckerShortChord(
                                  SubSeq(points, 1, maxIndex), tolN, tolD)
                      right == douglasPeuckerShortChord(
                                   SubSeq(points, maxIndex, Len(points)),
                                   tolN, tolD)
                  IN  dpJoin(left, right)
             ELSE dpCollapse(points)

RECURSIVE douglasPeucker(_, _, _)
douglasPeucker(points, tolN, tolD) ==
    IF Len(points) <= 2 THEN points
    ELSE LET start == points[1]
             end == points[Len(points)]
             m == maxLoop(points, 2, Len(points) - 1, <<0, 0>>)
             maxDistance == m[1]
             maxIndex == m[2]
         IN  IF dpExceeds(maxDistance, start, end, tolN, tolD)
             THEN LET left == douglasPeucker(SubSeq(points, 1, maxIndex),
                                             tolN, tolD)
                      right == douglasPeucker(
                                   SubSeq(points, maxIndex, Len(points)),
                                   tolN, tolD)
                  IN  dpJoin(left, right)
             ELSE dpCollapse(points)

(* ---------------------------------------------------------------------- *)
(* Tolerances of the Normal pipeline, in lattice units                    *)
(* ---------------------------------------------------------------------- *)
\* removeDuplicatePoints default 0.0001 = 1/10 lattice unit
DupTolN == 1
DupTolD == 10
\* removeCollinearPoints default 0.001 = 1000 squared lattice units
ColTolN == 1000
ColTolD == 1
\* douglasPeucker(simplified, 0.001) = 1 lattice unit
DpTolN == 1
DpTolD == 1

normalCleanup(s) ==
    LET points == getPoints(s)
    IN  IF Len(points) = 0 THEN s
        ELSE LET deduped == removeDuplicatePoints(points, DupTolN, DupTolD)
                 simplified == removeCollinearPoints(deduped, ColTolN, ColTolD)
                 smoothed == douglasPeucker(simplified, DpTolN, DpTolD)
             IN  createShapeFromPoints(smoothed)

(* ---------------------------------------------------------------------- *)
(* Outer contour by ray sampling                                          *)
(*                                                                        *)
(* The extractor works on fractions (mean, square root, cosine, quotient  *)
(* of determinants).  It is computed here in fixed point: positions in    *)
(* fifths of a lattice unit, cosines and sines in thousandths, every      *)
(* quotient rounded to the nearest integer.  A contour point is rounded   *)
(* to the lattice when it is pushed.                                      *)
(* ---------------------------------------------------------------------- *)
\* a / b rounded to the nearest integer (halves upwards), b # 0
RoundDiv(a, b) ==
    IF b < 0 THEN (2 * (-a) + (-b)) \div (2 * (-b))
    ELSE (2 * a + b) \div (2 * b)

RECURSIVE sqrtSearch(_, _, _)
\* the largest r in lo..hi with r * r <= n
sqrtSearch(n, lo, hi) ==
    IF lo >= hi THEN lo
    ELSE LET mid == (lo + hi + 1) \div 2
         IN  IF mid * mid <= n THEN sqrtSearch(n, mid, hi)
             ELSE sqrtSearch(n, lo, mid - 1)

\* Math.sqrt, rounded down
Sqrt(n) == sqrtSearch(n, 0, Min2(n, 46340))

\* 1000 * sin(d degrees), d in 0..90
SinTab ==
    << 0, 17, 35, 52, 70, 87, 105, 122, 139, 156, 174, 191, 208,
       225, 242, 259, 276, 292, 309, 326, 342, 358, 375, 391, 407, 423,
       438, 454, 469, 485, 500, 515, 530, 545, 559, 574, 588, 602, 616,
       629, 643, 656, 669, 682, 695, 707, 719, 731, 743, 755, 766, 777,
       788, 799, 809, 819, 829, 839, 848, 857, 866, 875, 883, 891, 899,
       906, 914, 921, 927, 934, 940, 946, 951, 956, 961, 966, 970, 974,
       978, 982, 985, 988, 990, 993, 995, 996, 998, 999, 999, 1000, 1000 >>

\* 1000 * Math.sin of d degrees, d in 0..359
Sin(d) ==
    IF d <= 90 THEN SinTab[d + 1]
    ELSE IF d <= 180 THEN SinTab[180 - d + 1]
    ELSE IF d <= 270 THEN -SinTab[d - 180 + 1]
    ELSE -SinTab[360 - d + 1]

\* 1000 * Math.cos of d degrees, d in 0..359
Cos(d) == Sin((d + 90) % 360)

\* a lattice point in fifths of a lattice unit, and back (rounded)
ToFine(p) == <<5 * p[1], 5 * p[2]>>

FromFine(p) == <<RoundDiv(p[1], 5), RoundDiv(p[2], 5)>>

NoPoint == <<>>

RECURSIVE sumLoop(_, _, _, _)
sumLoop(points, lo, hi, sum) ==
    IF lo > hi THEN sum
    ELSE IF lo = hi
    THEN <<sum[1] + points[lo][1], sum[2] + points[lo][2]>>
    ELSE LET mid == (lo + hi) \div 2
             left == sumLoop(points, lo, mid, sum)
         IN  IF Len(left) = 0 THEN left
             ELSE sumLoop(points, mid + 1, hi, left)

\* the arithmetic mean of the points (fine units in, fine units out)
calculateShapeCenter(points) ==
    LET sum == sumLoop(points, 1, Len(points), <<0, 0>>)
    IN  <<RoundDiv(sum[1], Len(points)), RoundDiv(sum[2], Len(points))>>

RECURSIVE maxRadiusLoop(_, _, _, _, _)
maxRadiusLoop(points, center, lo, hi, maxDistance) ==
    IF lo > hi THEN maxDistance
    ELSE IF lo = hi
    THEN Max2(maxDistance, Sqrt(DistSq(center, points[lo])))
    ELSE LET mid == (lo + hi) \div 2
             left == maxRadiusLoop(points, center, lo, mid, maxDistance)
         IN  IF left < 0 THEN left
             ELSE maxRadiusLoop(points, center, mid + 1, hi, left)

calculateMaxRadius(points, center) ==
    maxRadiusLoop(points, center, 1, Len(points), 0)

\* an intersection that must also lie within the segment p1 p2
lineIntersectionBothSegments(p1, p2, p3, p4) ==
    LET x1 == p1[1]
        y1 == p1[2]
        x2 == p2[1]
        y2 == p2[2]
        x3 == p3[1]
        y3 == p3[2]
        x4 == p4[1]
        y4 == p4[2]
        denom == (x1 - x2) * (y3 - y4) - (y1 - y2) * (x3 - x4)
        tNum == (x1 - x3) * (y3 - y4) - (y1 - y3) * (x3 - x4)
        uNum == -((x1 - x2) * (y1 - y3) - (y1 - y2) * (x1 - x3))
    IN  IF denom = 0 THEN NoPoint
        ELSE IF /\ ((uNum >= 0 /\ denom > 0) \/ (uNum <= 0 /\ denom < 0))
                /\ Abs(uNum) <= Abs(denom)
                /\ ((tNum >= 0 /\ denom > 0) \/ (tNum <= 0 /\ denom < 0))
                /\ Abs(tNum) <= Abs(denom)
        THEN <<x1 + RoundDiv(tNum * (x2 - x1), denom),
               y1 + RoundDiv(tNum * (y2 - y1), denom)>>
        ELSE NoPoint

\* the intersection of the line p1 p2 with the segment p3 p4, or NoPoint
lineIntersection(p1, p2, p3, p4) ==
    LET x1 == p1[1]
        y1 == p1[2]
        x2 == p2[1]
        y2 == p2[2]
        x3 == p3[1]
        y3 == p3[2]
        x4 == p4[1]
        y4 == p4[2]
        denom == (x1 - x2) * (y3 - y4) - (y1 - y2) * (x3 - x4)
        tNum == (x1 - x3) * (y3 - y4) - (y1 - y3) * (x3 - x4)
        uNum == -((x1 - x2) * (y1 - y3) - (y1 - y2) * (x1 - x3))
    IN  \* Math.abs(denom) < 1e-10: below every nonzero determinant of
        \* fixed-point positions
        IF denom = 0 THEN NoPoint
        \* u >= 0 && u <= 1 with u = uNum / denom
        ELSE IF ((uNum >= 0 /\ denom > 0) \/ (uNum <= 0 /\ denom < 0))
                /\ Abs(uNum) <= Abs(denom)
        THEN <<x1 + RoundDiv(tNum * (x2 - x1), denom),
               y1 + RoundDiv(tNum * (y2 - y1), denom)>>
        ELSE NoPoint

RECURSIVE edgeLoop(_, _, _, _, _, _)
\* the loop of findRayShapeIntersection over the edges lo..hi (counted
\* from 0), continuing from c = <<closestIntersection, closestDistance>>;
\* a closestDistance below 0 stands for Infinity
edgeLoop(rayStart, rayEnd, shapePoints, lo, hi, c) ==
    IF lo > hi THEN c
    ELSE IF lo = hi
    THEN LET edgeStart == shapePoints[lo + 1]
             edgeEnd == shapePoints[((lo + 1) % Len(shapePoints)) + 1]
             intersection == lineIntersection(rayStart, rayEnd,
                                              edgeStart, edgeEnd)
             dotp == (rayEnd[1] - rayStart[1]) * (intersection[1] - rayStart[1])
                   + (rayEnd[2] - rayStart[2]) * (intersection[2] - rayStart[2])
             distance == DistSq(rayStart, intersection)
         IN  IF intersection # NoPoint /\ dotp >= 0
                /\ (c[2] < 0 \/ distance < c[2])
             THEN <<intersection, distance>>
             ELSE c
    ELSE LET mid == (lo + hi) \div 2
             left == edgeLoop(rayStart, rayEnd, shapePoints, lo, mid, c)
         IN  IF Len(left) = 0 THEN left
             ELSE edgeLoop(rayStart, rayEnd, shapePoints, mid + 1, hi, left)

\* the loop stopping before the closing edge
findRayShapeIntersectionOpen(rayStart, rayEnd, shapePoints) ==
    edgeLoop(rayStart, rayEnd, shapePoints, 0, Len(shapePoints) - 2,
             <<NoPoint, -1>>)[1]

findRayShapeIntersection(rayStart, rayEnd, shapePoints) ==
    edgeLoop(rayStart, rayEnd, shapePoints, 0, Len(shapePoints) - 1,
             <<NoPoint, -1>>)[1]

numRays == 360

\* one turn of the loop of createOuterContourByRaySampling: the
\* intersection found for ray i (0 .. numRays - 1), or NoPoint
castRay(points, center, rayStartRadius, i) ==
    LET angle == (i * 360) \div numRays
        rayStart == <<center[1] + RoundDiv(Cos(angle) * rayStartRadius, 1000),
                      center[2] + RoundDiv(Sin(angle) * rayStartRadius, 1000)>>
    IN  findRayShapeIntersection(rayStart, center, points)

IsPoint(p) == p # NoPoint

\* the loop running to i <= numRays
createOuterContourExtraRay(points) ==
    IF Len(points) < 3 THEN points
    ELSE LET fine == [k \in 1..Len(points) |-> ToFine(points[k])]
             center == calculateShapeCenter(fine)
             maxRadius == calculateMaxRadius(fine, center)
             rayStartRadius == (maxRadius * 3) \div 2
             found == [k \in 1..(numRays + 1) |->
                          castRay(fine, center, rayStartRadius, k - 1)]
             contourPoints == SelectSeq(found, IsPoint)
         IN  [k \in 1..Len(contourPoints) |-> FromFine(contourPoints[k])]

\* the loop pushes the intersections that exist, in ray order
createOuterContourByRaySampling(points) ==
    IF Len(points) < 3 THEN points
    ELSE LET fine == [k \in 1..Len(points) |-> ToFine(points[k])]
             center == calculateShapeCenter(fine)
             maxRadius == calculateMaxRadius(fine, center)
             rayStartRadius == (maxRadius * 3) \div 2
             found == [k \in 1..numRays |->
                          castRay(fine, center, rayStartRadius, k - 1)]
             contourPoints == SelectSeq(found, IsPoint)
         IN  [k \in 1..Len(contourPoints) |-> FromFine(contourPoints[k])]

\* aggressiveCleanup sampling the raw outline, without the first pass
aggressiveCleanupSkipFirstPass(s) ==
    LET points == getPoints(s)
    IN  IF Len(points) = 0 THEN s
        ELSE LET outerContour == createOuterContourByRaySampling(points)
             IN  normalCleanup(createShapeFromPoints(outerContour))

aggressiveCleanup(s) ==
    LET points == getPoints(s)
    IN  IF Len(points) = 0 THEN s
        ELSE LET normalCleaned == normalCleanup(s)
                 cleanPoints == getPoints(normalCleaned)
                 outerContour == createOuterContourByRaySampling(cleanPoints)
             IN  normalCleanup(createShapeFromPoints(outerContour))

\* cleanupShape falling back to Normal cleanup for an unknown method
cleanupShapeDefaultNormal(s, cleanupMethod_) ==
    CASE cleanupMethod_ = 0 -> s
      [] cleanupMethod_ = 1 -> normalCleanup(s)
      [] cleanupMethod_ = 2 -> aggressiveCleanup(s)
      [] OTHER -> normalCleanup(s)

cleanupShape(s, cleanupMethod_) ==
    CASE cleanupMethod_ = 0 -> s
      [] cleanupMethod_ = 1 -> normalCleanup(s)
      [] cleanupMethod_ = 2 -> aggressiveCleanup(s)
      [] OTHER -> s

(* ---------------------------------------------------------------------- *)
(* Shape normaliser                                                       *)
(* ---------------------------------------------------------------------- *)
\* the program's 1 (scale = 1 / maxDimension) in lattice units
One == 1000

RECURSIVE boxLoop(_, _, _, _)
\* Box2.expandByPoint over points[lo..hi]: <<minX, minY, maxX, maxY>>
boxLoop(points, lo, hi, box) ==
    IF lo > hi THEN box
    ELSE IF lo = hi
    THEN <<Min2(box[1], points[lo][1]), Min2(box[2], points[lo][2]),
           Max2(box[3], points[lo][1]), Max2(box[4], points[lo][2])>>
    ELSE LET mid == (lo + hi) \div 2
             left == boxLoop(points, lo, mid, box)
         IN  IF Len(left) = 0 THEN left
             ELSE boxLoop(points, mid + 1, hi, left)

\* the bounding box of a non-empty point list
Box2(points) ==
    boxLoop(points, 2, Len(points), <<points[1][1], points[1][2],
                                      points[1][1], points[1][2]>>)

\* a vertex scaled without being centred
scaledVertexNoCenter(point, box) == <<One * 2 * point[1], One * 2 * point[2]>>

\* (point - center) * scale, times 2 * maxDimension / One
scaledVertex(point, box) ==
    <<One * (2 * point[1] - (box[1] + box[3])),
      One * (2 * point[2] - (box[2] + box[4]))>>

\* autoScaleShape dividing by maxDimension whatever its value
autoScaleShapeNoGuard(s) ==
    LET points == getPoints(s)
    IN  IF Len(points) = 0 THEN s
        ELSE LET box == Box2(points)
                 maxDimension == Max2(box[3] - box[1], box[4] - box[2])
             IN  [verts |-> [k \in 1..Len(points) |->
                               scaledVertex(points[k], box)],
                  den |-> 2 * maxDimension]

\* Both copies of autoScaleShape (ShapeSelector.tsx, Settings.tsx) are the
\* same text.  The scaled vertex (point - center) * scale, with
\* center = (min + max) / 2 and scale = 1 / maxDimension, is the fraction
\* One * (2 * point - (min + max)) / (2 * maxDimension); the denominator of
\* the input shape cancels.
autoScaleShape(s) ==
    LET points == getPoints(s)
    IN  IF Len(points) = 0 THEN s
        ELSE LET box == Box2(points)
                 maxDimension == Max2(box[3] - box[1], box[4] - box[2])
             IN  IF maxDimension = 0 THEN s
                 ELSE [verts |-> [k \in 1..Len(points) |->
                                   scaledVertex(points[k], box)],
                       den |-> 2 * maxDimension]

(* ---------------------------------------------------------------------- *)
(* Inputs                                                                 *)
(* ---------------------------------------------------------------------- *)
\* outline vertices lie on a grid of 0.02 (20 lattice units)
Coords == {20 * c : c \in 0..MaxCoord}

Points == Coords \X Coords

SeqsUpTo(S, n) == UNION {[1..k -> S] : k \in 0..n}

\* the shapes handed to the pipeline: polylines of up to MaxLen vertices
InputShapes == {createShapeFromPoints(v) : v \in SeqsUpTo(Points, MaxLen)}

\* the shapes given to Aggressive cleanup, which casts 360 rays at each
AggressiveInputShapes ==
    {createShapeFromPoints(v) : v \in SeqsUpTo(Points, MaxAggLen)}

\* corners of triangles on a grid of 0.048, so that edge midpoints are
\* lattice points and the corners are clear of the tolerances
TriCorners == {48 * c : c \in 0..MaxTriCoord} \X {48 * c : c \in 0..MaxTriCoord}

Midpoint(a, b) == <<(a[1] + b[1]) \div 2, (a[2] + b[2]) \div 2>>

\* the sequence started r points later, wrapping around
Rotate(points, r) ==
    [k \in 1..Len(points) |-> points[((k - 1 + r) % Len(points)) + 1]]

\* a triangle with the midpoint of one edge added, from every start point
TriangleShapes ==
    {createShapeFromPoints(Rotate(<<t[1], Midpoint(t[1], t[2]), t[2], t[3]>>,
                                  r)) :
        t \in {u \in TriCorners \X TriCorners \X TriCorners :
                  crossProduct(u[1], u[2], u[3]) # 0},
        r \in 0..3}

\* arrowheads: a quadrilateral with a notch, whose vertex mean lies in the
\* notch, outside the outline; from every start point
ArrowShapes ==
    {createShapeFromPoints(Rotate(<<<<0, 0>>, <<q[2], q[3]>>, <<0, q[4]>>,
                                    <<q[1], q[3]>>>>, r)) :
        q \in {u \in Coords \X Coords \X Coords \X Coords :
                  /\ 0 < u[1] /\ u[1] < u[2]
                  /\ 0 < u[3] /\ u[3] < u[4]},
        r \in 0..3}

\* cleanup methods: None, Normal, Aggressive and a value outside the enum
Modes == {0, 1, 2, 3}

EmptyShape == createShapeFromPoints(<<>>)

(* ---------------------------------------------------------------------- *)
(* The shape panel: import, cleanup method, re-processing effect          *)
(* ---------------------------------------------------------------------- *)
\* a value that may be absent (Shape | null) is <<>> or <<value>>
Null == <<>>

Some(v) == <<v>>

\* centerShape: every point minus the centre of the bounding box.  The
\* outlines read from files have even coordinates, so the centre
\* (min + max) / 2 is a lattice point.
centerShape(s) ==
    LET points == getPoints(s)
    IN  IF Len(points) = 0 THEN s
        ELSE LET box == Box2(points)
                 cx == (box[1] + box[3]) \div 2
                 cy == (box[2] + box[4]) \div 2
             IN  createShapeFromPoints(
                     [k \in 1..Len(points) |->
                         <<points[k][1] - cx, points[k][2] - cy>>])

\* svgToShape(text): the first shape of the first path, centred; null when
\* the text does not parse or has no path.  parsed is what SVGLoader makes
\* of the text: Null or Some(shape).
svgToShape(parsed) ==
    IF parsed = Null THEN Null ELSE Some(centerShape(parsed[1]))

\* file.name.replace(/\.svg$/i, "") followed by ".glb"; a name is the
\* sequence of its characters
glbName(name) ==
    LET n == Len(name)
        isSvg == /\ n >= 4
                 /\ name[n - 3] = "."
                 /\ name[n - 2] \in {"s", "S"}
                 /\ name[n - 1] \in {"v", "V"}
                 /\ name[n] \in {"g", "G"}
        baseFilename == IF isSvg THEN SubSeq(name, 1, n - 4) ELSE name
    IN  baseFilename \o <<".", "g", "l", "b">>

\* The files the user can pick: name, whether file.type contains "svg",
\* and what the SVG loader makes of the text.
Files ==
    { [name |-> <<"a", ".", "s", "v", "g">>, svgType |-> TRUE,
       parsed |-> Some(createShapeFromPoints(
                      <<<<0, 0>>, <<0, 20>>, <<20, 0>>, <<40, 40>>>>))],
      [name |-> <<"b", ".", "S", "V", "G">>, svgType |-> TRUE,
       parsed |-> Some(createShapeFromPoints(
                      <<<<0, 0>>, <<40, 0>>, <<40, 20>>, <<40, 40>>,
                        <<0, 40>>>>))],
      [name |-> <<"c", ".", "s", "v", "g">>, svgType |-> TRUE,
       parsed |-> Null],
      [name |-> <<"d", ".", "p", "n", "g">>, svgType |-> FALSE,
       parsed |-> Null] }

\* /star.svg, fetched when the panel mounts
StarFile ==
    [name |-> <<"s", "t", "a", "r", ".", "s", "v", "g">>, svgType |-> TRUE,
     parsed |-> Some(createShapeFromPoints(
                    <<<<20, 0>>, <<40, 40>>, <<0, 20>>, <<40, 20>>,
                      <<0, 40>>>>))]

\* the cleanup methods the select offers
Methods == {0, 1, 2}

NothingShown == [m \in Methods |-> Null]

\* the shapes svgToShape can return for these files
OriginalShapes ==
    {svgToShape(f.parsed)[1] : f \in {g \in Files \cup {StarFile} :
                                         g.parsed # Null}}

\* autoScaleShape(cleanupShape(original, method)) for every original shape
\* and method, computed once
ProcessedShapes ==
    [o \in OriginalShapes |->
        [m \in Methods |-> autoScaleShape(cleanupShape(o, m))]]

\* what the effect (and the import handlers) hand to onShapeChange
processed(original, method) == ProcessedShapes[original][method]

\* handleFileSelect up to the await: the guard, the export file name, and
\* the read of the file's text started with the cleanup method of this
\* render.  lastSelect remembers the file selected last and whether the
\* read of an earlier selection was still pending then.
SelectFile(f) ==
    /\ Cardinality(reads) < MaxReads
    /\ f.svgType
    /\ filename' = glbName(f.name)
    /\ lastSelect' = Some([file |-> f,
                           overlapped |-> \E rd \in reads : rd.kind = "file"])
    /\ reads' = reads \cup {[kind |-> "file", file |-> f,
                             method |-> cleanupMethod]}
    /\ UNCHANGED <<originalShape, shape, cleanupMethod, effectPending,
                   svgPreview, imported, shown, download, harnessVars, stageVars,
                   exportVars>>

\* handleFileSelect with no file or a file whose type lacks "svg": return
SelectRejected(f) ==
    /\ ~f.svgType
    /\ UNCHANGED vars

\* handleFileSelect returning when the text yields no shape
ReadDoneEarlyReturn(rd) ==
    /\ rd \in reads
    /\ rd.kind = "file"
    /\ reads' = reads \ {rd}
    /\ LET newShape == svgToShape(rd.file.parsed)
       IN  IF newShape # Null
           THEN /\ originalShape' = newShape
                /\ shape' = processed(newShape[1], rd.method)
                /\ effectPending' = TRUE
                /\ imported' = newShape
                /\ shown' = NothingShown
                /\ svgPreview' = <<"blob">> \o rd.file.name
           ELSE UNCHANGED <<originalShape, shape, effectPending, imported,
                            shown, svgPreview>>
    /\ UNCHANGED <<cleanupMethod, filename, lastSelect, download, harnessVars,
                   stageVars, exportVars>>

\* handleFileSelect after the await: store and show the new shape if there
\* is one, then set the preview
ReadDone(rd) ==
    /\ rd \in reads
    /\ rd.kind = "file"
    /\ reads' = reads \ {rd}
    /\ LET newShape == svgToShape(rd.file.parsed)
       IN  IF newShape # Null
           THEN /\ originalShape' = newShape
                /\ shape' = processed(newShape[1], rd.method)
                /\ effectPending' = TRUE
                /\ imported' = newShape
                /\ shown' = NothingShown
           ELSE UNCHANGED <<originalShape, shape, effectPending, imported,
                            shown, exportVars>>
    /\ svgPreview' = <<"blob">> \o rd.file.name
    /\ UNCHANGED <<cleanupMethod, filename, lastSelect, download, harnessVars, stageVars,
                   exportVars>>

\* loadInitialShape after its awaits: as an import, without file name or
\* preview; a failed fetch is caught and changes nothing
MountLoadDone(rd, ok) ==
    /\ rd \in reads
    /\ rd.kind = "mount"
    /\ reads' = reads \ {rd}
    /\ LET newShape == IF ok THEN svgToShape(rd.file.parsed) ELSE Null
       IN  IF newShape # Null
           THEN /\ originalShape' = newShape
                /\ shape' = processed(newShape[1], rd.method)
                /\ effectPending' = TRUE
                /\ imported' = newShape
                /\ shown' = NothingShown
           ELSE UNCHANGED <<originalShape, shape, effectPending, imported,
                            shown, exportVars>>
    /\ UNCHANGED <<cleanupMethod, filename, lastSelect, svgPreview, download, harnessVars,
                   stageVars, exportVars>>

\* a change of method that schedules no effect
ChangeMethodNoEffect(m) ==
    /\ m # cleanupMethod
    /\ cleanupMethod' = m
    /\ UNCHANGED <<originalShape, shape, effectPending, reads, filename, lastSelect,
                   svgPreview, imported, shown, download, harnessVars, stageVars,
                   exportVars>>

\* the select's onChange (and Reset): a new cleanup method re-renders the
\* panel and schedules the effects that depend on it
ChangeMethod(m) ==
    /\ m # cleanupMethod
    /\ cleanupMethod' = m
    /\ effectPending' = TRUE
    /\ UNCHANGED <<originalShape, shape, reads, filename, lastSelect, svgPreview,
                   imported, shown, download, harnessVars, stageVars,
                   exportVars>>

\* an effect that stores the cleaned shape as the new original
RunEffectCompounding ==
    /\ effectPending
    /\ effectPending' = FALSE
    /\ IF originalShape # Null
       THEN /\ originalShape'
                 = Some(cleanupShape(originalShape[1], cleanupMethod))
            /\ shape' = autoScaleShape(originalShape'[1])
            /\ shown' = IF shown[cleanupMethod] = Null
                        THEN [shown EXCEPT ![cleanupMethod] = Some(shape')]
                        ELSE shown
       ELSE UNCHANGED <<originalShape, shape, shown, exportVars>>
    /\ UNCHANGED <<cleanupMethod, reads, filename, lastSelect, svgPreview, imported,
                   download, harnessVars, stageVars, exportVars>>

\* the re-processing effects of ShapeSelector and ShapeSection (same body,
\* same dependencies, run in the same commit): show the stored original,
\* cleaned with the current method and scaled.  shown keeps the first shape
\* displayed under each method since the last import.
RunEffect ==
    /\ effectPending
    /\ effectPending' = FALSE
    /\ IF originalShape # Null
       THEN /\ shape' = processed(originalShape[1], cleanupMethod)
            /\ shown' = IF shown[cleanupMethod] = Null
                        THEN [shown EXCEPT ![cleanupMethod] = Some(shape')]
                        ELSE shown
       ELSE UNCHANGED <<shape, shown, exportVars>>
    /\ UNCHANGED <<originalShape, cleanupMethod, reads, filename, lastSelect, svgPreview,
                   imported, download, harnessVars, stageVars, exportVars>>

\* exportGltf, once the exporter has called back with the binary: the
\* anchor's download attribute is the suggested file name of the download
Download ==
    /\ download' = Some(<<"t", "o", "k", "e", "n", ".", "g", "l", "b">>)
    /\ UNCHANGED <<originalShape, shape, cleanupMethod, effectPending, reads,
                   filename, lastSelect, svgPreview, imported, shown, harnessVars,
                   stageVars, exportVars>>

(* ---------------------------------------------------------------------- *)
(* exportGltf: the mesh is rescaled and given white material clones for   *)
(* the exporter, and restored in the exporter's callbacks                 *)
(*                                                                        *)
(* mesh.scale is one positive fraction <<numerator, denominator>> in      *)
(* lowest terms (the three components are multiplied and restored         *)
(* together).  A material is a record: its class, its colour, and id, 0   *)
(* for a material of the scene and the number of the export for a clone   *)
(* made by that export.  mesh.material is one material or an array.       *)
(* ---------------------------------------------------------------------- *)
RECURSIVE GCD(_, _)
GCD(a, b) == IF b = 0 THEN a ELSE GCD(b, a % b)

\* the fraction n / d in lowest terms, n >= 0, d > 0
Frac(n, d) == <<n \div GCD(n, d), d \div GCD(n, d)>>

FracMul(a, b) == Frac(a[1] * b[1], a[2] * b[2])

\* Math.max(size.x, size.y, size.z) of the bounding box of the mesh: the
\* largest dimension of the geometry times the scale of the mesh
maxDimensionOf(size, scale) == FracMul(<<size, 1>>, scale)

\* mesh.scale.multiplyScalar(1 / maxDimension) when maxDimension > 0
exportScale(size, scale) ==
    LET maxDimension == maxDimensionOf(size, scale)
    IN  IF maxDimension[1] > 0
        THEN FracMul(scale, <<maxDimension[2], maxDimension[1]>>)
        ELSE scale

\* material.clone(), white if it is a MeshStandardMaterial or a
\* MeshPhysicalMaterial
whiteClone(material, id) ==
    [kind |-> material.kind,
     color |-> IF material.kind \in {"standard", "physical"}
               THEN "white" ELSE material.color,
     id |-> id]

\* the clones of mesh.material, an array or a single material
exportMaterial(m, id) ==
    [array |-> m.array,
     mats |-> [k \in 1..Len(m.mats) |-> whiteClone(m.mats[k], id)]]

\* the materials a mesh of the scene can have
SceneMaterials ==
    { [array |-> FALSE,
       mats |-> <<[kind |-> "standard", color |-> "red", id |-> 0]>>],
      [array |-> FALSE,
       mats |-> <<[kind |-> "basic", color |-> "red", id |-> 0]>>],
      [array |-> TRUE,
       mats |-> <<[kind |-> "physical", color |-> "red", id |-> 0],
                  [kind |-> "basic", color |-> "blue", id |-> 0]>>] }

SceneScales == {<<1, 1>>, <<2, 1>>, <<1, 2>>}

\* exportGltf with meshRef.current null: nothing happens
ExportNoMesh ==
    /\ ~meshMounted
    /\ UNCHANGED vars

\* exportGltf up to the return of exporter.parse: the scale and materials
\* are saved, the mesh is rescaled and given white clones, and the export
\* waits for the exporter.  scaleBefore and materialBefore remember the
\* mesh as it was when no export was pending; overlapped tells that an
\* export started while another was pending.
ExportStart ==
    /\ meshMounted
    /\ exportCount < MaxExports
    /\ exportCount' = exportCount + 1
    /\ exporting' = exporting \cup
                        {[id |-> exportCount + 1,
                          originalScale |-> meshScale,
                          originalMaterials |-> meshMaterial,
                          phase |-> "parse"]}
    /\ meshScale' = exportScale(meshSize, meshScale)
    /\ meshMaterial' = exportMaterial(meshMaterial, exportCount + 1)
    /\ IF exporting = {}
       THEN /\ scaleBefore' = meshScale
            /\ materialBefore' = meshMaterial
            /\ overlapped' = FALSE
       ELSE /\ overlapped' = TRUE
            /\ UNCHANGED <<scaleBefore, materialBefore>>
    /\ UNCHANGED <<meshMounted, meshSize, harnessVars, stageVars, appVars>>

\* the exporter's error callback: log, restore scale and materials
ParseError(e) ==
    /\ e \in exporting
    /\ e.phase = "parse"
    /\ meshScale' = e.originalScale
    /\ meshMaterial' = e.originalMaterials
    /\ exporting' = exporting \ {e}
    /\ UNCHANGED <<meshMounted, meshSize, exportCount, scaleBefore,
                   materialBefore, overlapped, harnessVars, stageVars,
                   appVars>>

\* the exporter's done callback up to its await of transformGltf
ParseDone(e) ==
    /\ e \in exporting
    /\ e.phase = "parse"
    /\ exporting' = (exporting \ {e}) \cup {[e EXCEPT !.phase = "transform"]}
    /\ UNCHANGED <<meshMounted, meshSize, meshScale, meshMaterial,
                   exportCount, scaleBefore, materialBefore, overlapped,
                   harnessVars, stageVars, appVars>>

\* the done callback after transformGltf resolved: the download, then the
\* scale and materials are restored
TransformDone(e) ==
    /\ e \in exporting
    /\ e.phase = "transform"
    /\ download' = Some(<<"t", "o", "k", "e", "n", ".", "g", "l", "b">>)
    /\ meshScale' = e.originalScale
    /\ meshMaterial' = e.originalMaterials
    /\ exporting' = exporting \ {e}
    /\ UNCHANGED <<meshMounted, meshSize, exportCount, scaleBefore,
                   materialBefore, overlapped, originalShape, shape,
                   cleanupMethod, effectPending, reads, filename, lastSelect, svgPreview,
                   imported, shown, harnessVars, stageVars>>

\* transformGltf rejected: the done callback ends at its await, the lines
\* after it do not run
TransformFailed(e) ==
    /\ e \in exporting
    /\ e.phase = "transform"
    /\ exporting' = exporting \ {e}
    /\ UNCHANGED <<meshMounted, meshSize, meshScale, meshMaterial,
                   exportCount, scaleBefore, materialBefore, overlapped,
                   harnessVars, stageVars, appVars>>

(* ---------------------------------------------------------------------- *)
(* Initial values of the four groups of variables when unused             *)
(* ---------------------------------------------------------------------- *)
ExportIdle ==
    /\ meshMounted = FALSE
    /\ meshSize = 0
    /\ meshScale = <<1, 1>>
    /\ meshMaterial = [array |-> TRUE, mats |-> <<>>]
    /\ exporting = {}
    /\ exportCount = 0
    /\ scaleBefore = <<1, 1>>
    /\ materialBefore = [array |-> TRUE, mats |-> <<>>]
    /\ overlapped = FALSE

HarnessIdle ==
    /\ inShape = EmptyShape
    /\ inMode = 0
    /\ outShape = EmptyShape
    /\ reShape = EmptyShape
    /\ scaledShape = EmptyShape
    /\ contour = <<>>
    /\ pc = "idle"

StageIdle ==
    /\ stagePts = <<>>
    /\ stageTolN = 0
    /\ stageTolD = 1
    /\ stageOut = <<>>
    /\ stageRe = <<>>
    /\ stageDist = 0
    /\ stageHit = NoPoint
    /\ stage = "idle"

\* App: useState(defaultSettings), useState(new Shape()); ShapeSection:
\* useState("/star.svg"), useState(null); nothing read yet
AppIdle ==
    /\ originalShape = Null
    /\ shape = EmptyShape
    /\ cleanupMethod = 1
    /\ effectPending = FALSE
    /\ reads = {}
    /\ filename = <<"s", "t", "a", "r", ".", "g", "l", "b">>
    /\ lastSelect = Null
    /\ svgPreview = <<"/", "s", "t", "a", "r", ".", "s", "v", "g">>
    /\ download = Null
    /\ imported = Null
    /\ shown = NothingShown

(* ---------------------------------------------------------------------- *)
(* Spec: the pipeline applied to one input shape                          *)
(* ---------------------------------------------------------------------- *)
Init ==
    /\ inMode \in Modes
    /\ inShape \in IF inMode = 2 THEN AggressiveInputShapes \cup ArrowShapes
                    ELSE IF inMode = 1 THEN InputShapes \cup TriangleShapes
                    ELSE InputShapes
    /\ outShape = EmptyShape
    /\ reShape = EmptyShape
    /\ scaledShape = EmptyShape
    /\ contour = <<>>
    /\ pc = "start"
    /\ StageIdle
    /\ AppIdle
    /\ ExportIdle

\* a cleanup that rewrites the shape it was given
CleanupInPlace ==
    /\ pc = "start"
    /\ outShape' = cleanupShape(inShape, inMode)
    /\ inShape' = outShape'
    /\ pc' = "cleaned"
    /\ UNCHANGED <<inMode, reShape, scaledShape, contour, stageVars, appVars,
                   exportVars>>

\* cleanupShape(shape, cleanupMethod)
Cleanup ==
    /\ pc = "start"
    /\ outShape' = cleanupShape(inShape, inMode)
    /\ pc' = "cleaned"
    /\ UNCHANGED <<inShape, inMode, reShape, scaledShape, contour, stageVars,
                   appVars, exportVars>>

\* a second pass of cleanupShape over the cleaned shape
Recleanup ==
    /\ pc = "cleaned"
    /\ reShape' = cleanupShape(outShape, inMode)
    /\ pc' = "recleaned"
    /\ UNCHANGED <<inShape, inMode, outShape, scaledShape, contour,
                   stageVars, appVars, exportVars>>

\* autoScaleShape(cleanedShape)
AutoScale ==
    /\ pc = "cleaned"
    /\ scaledShape' = autoScaleShape(outShape)
    /\ pc' = "scaled"
    /\ UNCHANGED <<inShape, inMode, outShape, reShape, contour, stageVars,
                   appVars, exportVars>>

\* createOuterContourByRaySampling(points) on the points of the shape
Extract ==
    /\ pc = "start"
    /\ inMode = 2
    /\ contour' = createOuterContourByRaySampling(getPoints(inShape))
    /\ pc' = "extracted"
    /\ UNCHANGED <<inShape, inMode, outShape, reShape, scaledShape,
                   stageVars, appVars, exportVars>>

Next == Cleanup \/ Recleanup \/ AutoScale \/ Extract

Spec == Init /\ [][Next]_vars

(* ---------------------------------------------------------------------- *)
(* StageSpec: one stage applied to one point list with one tolerance      *)
(* ---------------------------------------------------------------------- *)
\* stage inputs: lattice points with coordinates 0 .. MaxCoord
StagePoints == (0..MaxCoord) \X (0..MaxCoord)

StageInit ==
    /\ stagePts \in SeqsUpTo(StagePoints, MaxLen)
    /\ stageTolN \in 0..MaxTol
    /\ stageTolD \in {1, 2}
    /\ stageOut = <<>>
    /\ stageRe = <<>>
    /\ stageDist = 0
    /\ stageHit = NoPoint
    /\ stage = "start"
    /\ HarnessIdle
    /\ AppIdle
    /\ ExportIdle

DedupStage ==
    /\ stage = "start"
    /\ stageOut' = removeDuplicatePoints(stagePts, stageTolN, stageTolD)
    /\ stage' = "dedup"
    /\ UNCHANGED <<stagePts, stageTolN, stageTolD, stageRe, stageDist, stageHit,
                   harnessVars, appVars, exportVars>>

CollinearStage ==
    /\ stage = "start"
    /\ stageOut' = removeCollinearPoints(stagePts, stageTolN, stageTolD)
    /\ stage' = "collinear"
    /\ UNCHANGED <<stagePts, stageTolN, stageTolD, stageRe, stageDist, stageHit,
                   harnessVars, appVars, exportVars>>

SimplifyStage ==
    /\ stage = "start"
    /\ stageOut' = douglasPeucker(stagePts, stageTolN, stageTolD)
    /\ stage' = "simplify"
    /\ UNCHANGED <<stagePts, stageTolN, stageTolD, stageRe, stageDist, stageHit,
                   harnessVars, appVars, exportVars>>

\* pointToLineDistance(point, lineStart, lineEnd) on the first three points
DistanceStage ==
    /\ stage = "start"
    /\ Len(stagePts) >= 3
    /\ stageDist' = pointToLineDistance(stagePts[1], stagePts[2], stagePts[3])
    /\ stage' = "distance"
    /\ UNCHANGED <<stagePts, stageTolN, stageTolD, stageOut, stageRe, stageHit,
                   harnessVars, appVars, exportVars>>

\* lineIntersection(p1, p2, p3, p4) on the first four points
IntersectStage ==
    /\ stage = "start"
    /\ Len(stagePts) >= 4
    /\ stageHit' = lineIntersection(stagePts[1], stagePts[2], stagePts[3],
                                    stagePts[4])
    /\ stage' = "intersect"
    /\ UNCHANGED <<stagePts, stageTolN, stageTolD, stageOut, stageRe, stageDist,
                   harnessVars, appVars, exportVars>>

\* removeDuplicatePoints applied to its own result, same tolerance
DedupAgain ==
    /\ stage = "dedup"
    /\ stageRe' = removeDuplicatePoints(stageOut, stageTolN, stageTolD)
    /\ stage' = "rededup"
    /\ UNCHANGED <<stagePts, stageTolN, stageTolD, stageOut, stageDist,
                   stageHit, harnessVars, appVars, exportVars>>

\* douglasPeucker applied to its own result, same tolerance
SimplifyAgain ==
    /\ stage = "simplify"
    /\ stageRe' = douglasPeucker(stageOut, stageTolN, stageTolD)
    /\ stage' = "resimplify"
    /\ UNCHANGED <<stagePts, stageTolN, stageTolD, stageOut, stageDist,
                   stageHit, harnessVars, appVars, exportVars>>

StageNext ==
    \/ DedupStage
    \/ CollinearStage
    \/ SimplifyStage
    \/ DistanceStage
    \/ IntersectStage
    \/ DedupAgain
    \/ SimplifyAgain

StageSpec == StageInit /\ [][StageNext]_vars

(* ---------------------------------------------------------------------- *)
(* AppSpec: the shape panel from mount                                    *)
(* ---------------------------------------------------------------------- *)
\* as AppIdle, with the fetch of /star.svg started by useEffectOnce under
\* the default cleanup method
AppInit ==
    /\ originalShape = Null
    /\ shape = EmptyShape
    /\ cleanupMethod = 1
    /\ effectPending = FALSE
    /\ reads = {[kind |-> "mount", file |-> StarFile, method |-> 1]}
    /\ filename = <<"s", "t", "a", "r", ".", "g", "l", "b">>
    /\ lastSelect = Null
    /\ svgPreview = <<"/", "s", "t", "a", "r", ".", "s", "v", "g">>
    /\ download = Null
    /\ imported = Null
    /\ shown = NothingShown
    /\ HarnessIdle
    /\ StageIdle
    /\ ExportIdle

AppNext ==
    \/ \E f \in Files : SelectFile(f)
    \/ \E f \in Files : SelectRejected(f)
    \/ \E rd \in reads : ReadDone(rd)
    \/ \E rd \in reads, ok \in BOOLEAN : MountLoadDone(rd, ok)
    \/ \E m \in Methods : ChangeMethod(m)
    \/ RunEffect
    \/ Download

AppSpec == AppInit /\ [][AppNext]_vars

(* ---------------------------------------------------------------------- *)
(* ExportSpec: exports of one mesh, possibly overlapping                  *)
(* ---------------------------------------------------------------------- *)
ExportInit ==
    /\ meshMounted \in BOOLEAN
    /\ meshSize \in 0..MaxMeshSize
    /\ meshScale \in SceneScales
    /\ meshMaterial \in SceneMaterials
    /\ exporting = {}
    /\ exportCount = 0
    /\ scaleBefore = meshScale
    /\ materialBefore = meshMaterial
    /\ overlapped = FALSE
    /\ HarnessIdle
    /\ StageIdle
    /\ AppIdle

ExportNext ==
    \/ ExportNoMesh
    \/ ExportStart
    \/ \E e \in exporting : ParseError(e)
    \/ \E e \in exporting : ParseDone(e)
    \/ \E e \in exporting : TransformDone(e)
    \/ \E e \in exporting : TransformFailed(e)

ExportSpec == ExportInit /\ [][ExportNext]_vars

(* ====================================================================== *)
(* Properties                                                             *)
(* ====================================================================== *)
RECURSIVE subseqFrom(_, _, _, _)
\* a[i..] can be matched, in order, against points of b[j..]
subseqFrom(a, i, b, j) ==
    IF i > Len(a) THEN TRUE
    ELSE IF j > Len(b) THEN FALSE
    ELSE IF a[i] = b[j] THEN subseqFrom(a, i + 1, b, j + 1)
    ELSE subseqFrom(a, i, b, j + 1)

\* a is an order-preserving subsequence of b
IsSubseq(a, b) == subseqFrom(a, 1, b, 1)

\* the point sequence of the input shape, of the cleaned shape, of the
\* shape cleaned twice and of the scaled shape
inPoints == getPoints(inShape)

outPoints == getPoints(outShape)

rePoints == getPoints(reShape)

scaledPoints == getPoints(scaledShape)

\* the three stages of the Normal pipeline with the tolerances the claims
\* name: 1e-4 (1/10 lattice unit), 1e-3 (1000 squared lattice units) and
\* 0.001 (1 lattice unit)
NormalStages(points) ==
    douglasPeucker(
        removeCollinearPoints(removeDuplicatePoints(points, 1, 10), 1000, 1),
        1, 1)

(* ---------------------------------------------------------------------- *)
(* C1.  Whenever an original shape is stored and the re-processing effect *)
(* has run, the displayed shape is autoScaleShape(cleanupShape(original,  *)
(* current method)), and the stored original is the shape of the most     *)
(* recent successful import: no cleaned or scaled result is fed back.     *)
(* ---------------------------------------------------------------------- *)
C1_DisplayedFromOriginal ==
    /\ originalShape = imported
    /\ (~effectPending /\ originalShape # Null)
          => shape = autoScaleShape(cleanupShape(originalShape[1],
                                                 cleanupMethod))

\* an imported file is displayed under a method other than the one it was
\* read under, and that method changes the outline
C1_Witness ==
    /\ ~effectPending
    /\ originalShape # Null
    /\ svgPreview[1] = "blob"
    /\ cleanupMethod = 2
    /\ reads = {}
    /\ shape # autoScaleShape(originalShape[1])

(* ---------------------------------------------------------------------- *)
(* C2.  Changing the cleanup method back and forth leaves the stored      *)
(* original as imported, and each time the effect has run the displayed   *)
(* shape is the one first displayed under that method since the import.   *)
(* ---------------------------------------------------------------------- *)
C2_ToggleRestoresDisplay ==
    /\ originalShape = imported
    /\ (~effectPending /\ originalShape # Null)
          => /\ shown[cleanupMethod] # Null
             /\ shape = shown[cleanupMethod][1]

\* every method has been displayed since the import, and they differ
C2_Witness ==
    /\ ~effectPending
    /\ originalShape # Null
    /\ \A m \in Methods : shown[m] # Null
    /\ shown[0] # shown[1]
    /\ shown[1] # shown[2]
    /\ shape = shown[cleanupMethod][1]

(* ---------------------------------------------------------------------- *)
(* C3.  For every non-empty raw point sequence the point sequence of      *)
(* cleanupShape(raw, Normal) is douglasPeucker(removeCollinearPoints(     *)
(* removeDuplicatePoints(raw, 1e-4), 1e-3), 0.001).                       *)
(* ---------------------------------------------------------------------- *)
C3_NormalIsStageComposition ==
    (pc = "cleaned" /\ inMode = 1 /\ Len(inPoints) > 0)
        => outPoints = NormalStages(inPoints)

(* ---------------------------------------------------------------------- *)
(* C4.  For every non-empty raw point sequence, Aggressive cleanup is     *)
(* Normal cleanup, then the ray-sampling extractor on the points of its   *)
(* result, then Normal cleanup of the shape built from the contour.       *)
(* ---------------------------------------------------------------------- *)
C4_AggressiveIsNormalExtractNormal ==
    (pc = "cleaned" /\ inMode = 2 /\ Len(inPoints) > 0)
        => outShape = cleanupShape(
                          createShapeFromPoints(
                              createOuterContourByRaySampling(
                                  getPoints(cleanupShape(inShape, 1)))),
                          1)

\* the first pass left a triangle, the extractor found contour points and
\* the result differs from that of Normal cleanup
C4_Witness ==
    /\ pc = "cleaned"
    /\ inMode = 2
    /\ Len(getPoints(cleanupShape(inShape, 1))) >= 3
    /\ Len(outShape.verts) >= 2
    /\ outShape # cleanupShape(inShape, 1)

(* ---------------------------------------------------------------------- *)
(* C5.  cleanupShape returns the shape it was given when the method is    *)
(* None (0) or any value other than Normal (1) and Aggressive (2).        *)
(* ---------------------------------------------------------------------- *)
C5_OtherMethodsReturnInput ==
    (pc = "cleaned" /\ inMode \notin {1, 2}) => outShape = inShape

\* a method outside the enum, on a shape Normal cleanup would change
C5_Witness ==
    /\ pc = "cleaned"
    /\ inMode = 3
    /\ Len(inPoints) >= 3
    /\ getPoints(cleanupShape(inShape, 1)) # inPoints

(* ---------------------------------------------------------------------- *)
(* C6 as stated.  Normal cleanup is idempotent: a second pass over the    *)
(* cleaned shape returns the same point sequence.  (No input of this      *)
(* model lies on a tolerance boundary: cross products are multiples of    *)
(* 400, squared distances multiples of 400.)                              *)
(* ---------------------------------------------------------------------- *)
C6_NormalIdempotent ==
    (pc = "recleaned" /\ inMode = 1) => rePoints = outPoints

(* ---------------------------------------------------------------------- *)
(* C6 amended.  A second pass of Normal cleanup never adds or moves a     *)
(* point: its point sequence is an order-preserving subsequence of the    *)
(* first pass's (and can be strictly shorter).                            *)
(* ---------------------------------------------------------------------- *)
C6_SecondPassOnlyRemoves ==
    (pc = "recleaned" /\ inMode = 1) => IsSubseq(rePoints, outPoints)

\* the second pass removed a vertex of an already-cleaned outline
C6_Witness ==
    /\ pc = "recleaned"
    /\ inMode = 1
    /\ Len(outPoints) >= 3
    /\ Len(rePoints) >= 2
    /\ Len(rePoints) < Len(outPoints)

(* ---------------------------------------------------------------------- *)
(* C7.  Each of removeDuplicatePoints, removeCollinearPoints and          *)
(* douglasPeucker returns an order-preserving subsequence of its input,   *)
(* for every input and tolerance: never longer, nothing added or moved.   *)
(* ---------------------------------------------------------------------- *)
C7_StagesReturnSubsequence ==
    (stage \in {"dedup", "collinear", "simplify"})
        => /\ IsSubseq(stageOut, stagePts)
           /\ Len(stageOut) <= Len(stagePts)

\* the simplifier split at an interior point and dropped another
C7_Witness ==
    /\ stage = "simplify"
    /\ Len(stageOut) >= 3
    /\ Len(stageOut) < Len(stagePts)

(* ---------------------------------------------------------------------- *)
(* C8.  For every input of at least 2 points and every tolerance,         *)
(* douglasPeucker returns at least 2 points, the first and the last of    *)
(* them the first and the last input point.                               *)
(* ---------------------------------------------------------------------- *)
C8_SimplifierKeepsEndpoints ==
    (stage = "simplify" /\ Len(stagePts) >= 2)
        => /\ Len(stageOut) >= 2
           /\ stageOut[1] = stagePts[1]
           /\ stageOut[Len(stageOut)] = stagePts[Len(stagePts)]

\* an explicitly closed loop (first = last) collapsed to its end points
C8_Witness ==
    /\ stage = "simplify"
    /\ Len(stagePts) >= 3
    /\ stagePts[1] = stagePts[Len(stagePts)]
    /\ stagePts[2] # stagePts[1]
    /\ Len(stageOut) = 2

(* ---------------------------------------------------------------------- *)
(* C9.  When the bounding box of the points has max(width, height) > 0,   *)
(* autoScaleShape returns as many points in the same order, each          *)
(* (point - boxCenter) / maxDim, so the output's bounding box is centred  *)
(* at the origin and its largest dimension is exactly 1.                  *)
(* ---------------------------------------------------------------------- *)
C9_ScaledToUnitBox ==
    (pc = "scaled" /\ Len(outPoints) > 0)
        => LET box == Box2(outPoints)
               maxDim == Max2(box[3] - box[1], box[4] - box[2])
               d == scaledShape.den
               sbox == Box2(scaledPoints)
           IN  maxDim > 0
                 => /\ Len(scaledPoints) = Len(outPoints)
                    /\ \A k \in 1..Len(outPoints) :
                          /\ scaledPoints[k][1] * 2 * maxDim
                               = d * One * (2 * outPoints[k][1]
                                            - (box[1] + box[3]))
                          /\ scaledPoints[k][2] * 2 * maxDim
                               = d * One * (2 * outPoints[k][2]
                                            - (box[2] + box[4]))
                    /\ sbox[1] + sbox[3] = 0
                    /\ sbox[2] + sbox[4] = 0
                    /\ Max2(sbox[3] - sbox[1], sbox[4] - sbox[2]) = One * d

\* an outline that is neither square nor centred was scaled
C9_Witness ==
    /\ pc = "scaled"
    /\ Len(outPoints) >= 3
    /\ LET box == Box2(outPoints)
       IN  /\ box[3] - box[1] > box[4] - box[2]
           /\ box[4] - box[2] > 0
           /\ box[1] + box[3] # 0
    /\ scaledShape # outShape

(* ---------------------------------------------------------------------- *)
(* C10.  autoScaleShape returns its input shape unchanged when the point  *)
(* sequence is empty, is a single point, or has all points coincident     *)
(* (bounding box of max dimension 0).                                     *)
(* ---------------------------------------------------------------------- *)
C10_DegenerateUnscaled ==
    (pc = "scaled"
     /\ \A j, k \in 1..Len(outPoints) : outPoints[j] = outPoints[k])
        => scaledShape = outShape

\* a shape whose points all coincide went through autoScaleShape
C10_Witness ==
    /\ pc = "scaled"
    /\ Len(outPoints) = 1
    /\ Len(outShape.verts) >= 3

\* at least 3 points, not all on one line
HasInterior(points) ==
    /\ Len(points) >= 3
    /\ \E i, j, k \in 1..Len(points) :
          crossProduct(points[i], points[j], points[k]) # 0

(* ---------------------------------------------------------------------- *)
(* C11.  The contour extractor returns at most 360 points, and at least   *)
(* one when its input has 3 or more points that are not all collinear;    *)
(* Aggressive cleanup never returns more than 360 points.                 *)
(* ---------------------------------------------------------------------- *)
C11_ContourBound ==
    /\ pc = "extracted"
          => /\ Len(contour) <= 360
             /\ HasInterior(inPoints) => Len(contour) > 0
    /\ (pc = "cleaned" /\ inMode = 2) => Len(outPoints) <= 360

\* every one of the 360 rays found a point of a triangle
C11_Witness ==
    /\ pc = "extracted"
    /\ HasInterior(inPoints)
    /\ Len(contour) = 360

(* ---------------------------------------------------------------------- *)
(* C12.  cleanupShape in every mode, autoScaleShape and the contour       *)
(* extractor return an empty or single-point sequence unchanged (every    *)
(* evaluation below terminates without error).                            *)
(* ---------------------------------------------------------------------- *)
C12_DegeneratePassThrough ==
    /\ (pc = "cleaned" /\ Len(inPoints) <= 1) => outPoints = inPoints
    /\ (pc = "scaled" /\ Len(outPoints) <= 1) => scaledPoints = outPoints
    /\ (pc = "extracted" /\ Len(inPoints) <= 1) => contour = inPoints

(* ---------------------------------------------------------------------- *)
(* C13.  For a shape made of one point repeated, cleanupShape in every    *)
(* mode returns the same points, and so does autoScaleShape.              *)
(* ---------------------------------------------------------------------- *)
C13_RepeatedPointUnchanged ==
    LET repeated(s) == /\ Len(s.verts) >= 2
                       /\ \A k \in 1..Len(s.verts) : s.verts[k] = s.verts[1]
    IN  /\ (pc = "cleaned" /\ repeated(inShape)) => outPoints = inPoints
        /\ (pc = "scaled" /\ repeated(outShape)) => scaledShape = outShape

\* point k of a closed outline lies midway between its two neighbours
IsMidpointAt(points, k) ==
    LET n == Len(points)
        before == points[((k + n - 2) % n) + 1]
        after == points[(k % n) + 1]
    IN  /\ 2 * points[k][1] = before[1] + after[1]
        /\ 2 * points[k][2] = before[2] + after[2]

\* the points without point k
Without(points, k) ==
    SubSeq(points, 1, k - 1) \o SubSeq(points, k + 1, Len(points))

\* 4 points: a triangle and the midpoint of one edge at position k, the
\* triangle large against the tolerances (half its doubled area above the
\* collinearity tolerance 1e-3, each height above 0.001)
TriangleWithMidpointAt(points, k) ==
    /\ Len(points) = 4
    /\ k \in 1..4
    /\ IsMidpointAt(points, k)
    /\ LET corners == Without(points, k)
           area2 == crossProduct(corners[1], corners[2], corners[3])
       IN  /\ area2 > 2 * 1000
           /\ \A i, j \in 1..3 :
                  area2 * area2 > DistSq(corners[i], corners[j])

(* ---------------------------------------------------------------------- *)
(* C14 as stated.  For a triangle with the midpoint of one edge added,    *)
(* whichever the edge and wherever the sequence starts, the collinearity  *)
(* filter removes the midpoint and Normal cleanup returns exactly the 3   *)
(* corners.                                                               *)
(* ---------------------------------------------------------------------- *)
C14_MidpointRemovedFromAnyStart ==
    \A k \in 1..4 :
        (pc = "cleaned" /\ inMode = 1 /\ TriangleWithMidpointAt(inPoints, k))
            => /\ removeCollinearPoints(
                      removeDuplicatePoints(inPoints, 1, 10), 1000, 1)
                     = Without(inPoints, k)
               /\ outPoints = Without(inPoints, k)

(* ---------------------------------------------------------------------- *)
(* C14 amended.  When the midpoint is neither the first nor the last      *)
(* point of the sequence, the collinearity filter removes it and Normal   *)
(* cleanup returns exactly the 3 corners; when the sequence starts or     *)
(* ends at the midpoint, the midpoint is kept and all 4 points are        *)
(* returned.                                                              *)
(* ---------------------------------------------------------------------- *)
C14_InteriorMidpointRemoved ==
    \A k \in 1..4 :
        (pc = "cleaned" /\ inMode = 1 /\ TriangleWithMidpointAt(inPoints, k))
            => IF k \in {2, 3}
               THEN /\ removeCollinearPoints(
                           removeDuplicatePoints(inPoints, 1, 10), 1000, 1)
                          = Without(inPoints, k)
                    /\ outPoints = Without(inPoints, k)
               ELSE outPoints = inPoints

\* the midpoint is the third point of the sequence and was removed
C14_Witness ==
    /\ pc = "cleaned"
    /\ inMode = 1
    /\ TriangleWithMidpointAt(inPoints, 3)
    /\ Len(outPoints) = 3

C16_DownloadName ==
    download # Null => download[1] = filename

RECURSIVE restrictFrom(_, _, _)
\* the points with index in K, from index i on, in order
restrictFrom(points, K, i) ==
    IF i > Len(points) THEN <<>>
    ELSE IF i \in K THEN <<points[i]>> \o restrictFrom(points, K, i + 1)
    ELSE restrictFrom(points, K, i + 1)

\* the points with index in K, in order
Restrict(points, K) == restrictFrom(points, K, 1)

\* the greatest element of a non-empty set of integers
MaxOf(S) == CHOOSE m \in S : \A j \in S : j <= m

(* ---------------------------------------------------------------------- *)
(* C17.  removeDuplicatePoints keeps the first point and then keeps point *)
(* i if and only if its distance to the most recently kept point is       *)
(* strictly greater than the tolerance (a point at exactly the tolerance  *)
(* is dropped; dropped points and the wrap-around neighbour are never     *)
(* compared against).                                                     *)
(* ---------------------------------------------------------------------- *)
C17_DedupKeepsFartherThanTolerance ==
    (stage = "dedup" /\ Len(stagePts) > 0)
        => \E K \in SUBSET (1..Len(stagePts)) :
              /\ 1 \in K
              /\ \A i \in 2..Len(stagePts) :
                    i \in K <=>
                      LET kept == stagePts[MaxOf({j \in K : j < i})]
                      IN  DistSq(stagePts[i], kept) * stageTolD * stageTolD
                            > stageTolN * stageTolN
              /\ stageOut = Restrict(stagePts, K)

\* tolerance 1: the second point, at distance exactly 1 from the first, is
\* dropped, and the third, at distance 1 from the dropped one, is kept
C17_Witness ==
    /\ stage = "dedup"
    /\ stageTolN = 1
    /\ stageTolD = 1
    /\ Len(stagePts) >= 3
    /\ DistSq(stagePts[1], stagePts[2]) = 1
    /\ DistSq(stagePts[2], stagePts[3]) = 1
    /\ Len(stageOut) >= 2
    /\ stageOut[2] = stagePts[3]

(* ---------------------------------------------------------------------- *)
(* C18.  removeCollinearPoints returns inputs of at most 2 points         *)
(* unchanged; otherwise it keeps the first and last points and keeps      *)
(* interior point i if and only if |cross(p[i] - p[i-1], p[i+1] - p[i-1])|*)
(* is strictly greater than the tolerance, p[i-1] and p[i+1] being the    *)
(* neighbours in the input even when p[i-1] was dropped.                  *)
(* ---------------------------------------------------------------------- *)
C18_CollinearKeepsByInputNeighbours ==
    (stage = "collinear")
        => LET p == stagePts
               n == Len(p)
               cross(i) ==
                   Abs((p[i][1] - p[i - 1][1]) * (p[i + 1][2] - p[i - 1][2])
                       - (p[i][2] - p[i - 1][2]) * (p[i + 1][1] - p[i - 1][1]))
           IN  IF n <= 2 THEN stageOut = p
               ELSE stageOut
                      = Restrict(p, {1, n} \cup
                                    {i \in 2..(n - 1) :
                                       cross(i) * stageTolD > stageTolN})

\* point 2 is dropped and point 3 is kept, although point 3 is collinear
\* with the kept points 1 and 4
C18_Witness ==
    /\ stage = "collinear"
    /\ Len(stagePts) = 4
    /\ stageOut = <<stagePts[1], stagePts[3], stagePts[4]>>
    /\ stagePts[2] # stagePts[3]
    /\ (stagePts[3][1] - stagePts[1][1]) * (stagePts[4][2] - stagePts[1][2])
         = (stagePts[3][2] - stagePts[1][2]) * (stagePts[4][1] - stagePts[1][1])

(* ---------------------------------------------------------------------- *)
(* C19.  douglasPeucker on more than 2 points takes the interior point    *)
(* farthest from the segment (first, last), the earliest of equally far   *)
(* points; if its distance is strictly greater than the tolerance the     *)
(* result is the simplified first..split followed by the simplified       *)
(* split..last with the split point once, otherwise exactly               *)
(* <<first, last>>.                                                       *)
(* ---------------------------------------------------------------------- *)
C19_SimplifierSplitsAtFarthest ==
    (stage = "simplify" /\ Len(stagePts) > 2)
        => LET p == stagePts
               n == Len(p)
               d(i) == pointToLineDistance(p[i], p[1], p[n])
               split == CHOOSE i \in 2..(n - 1) :
                           /\ \A j \in 2..(n - 1) : d(j) <= d(i)
                           /\ \A j \in 2..(i - 1) : d(j) < d(i)
               left == douglasPeucker(SubSeq(p, 1, split), stageTolN,
                                      stageTolD)
               right == douglasPeucker(SubSeq(p, split, n), stageTolN,
                                       stageTolD)
           IN  IF d(split) * stageTolD * stageTolD
                    > stageTolN * stageTolN * lineDen(p[1], p[n])
               THEN /\ stageOut = SubSeq(left, 1, Len(left) - 1) \o right
                    /\ left[Len(left)] = p[split]
                    /\ right[1] = p[split]
               ELSE stageOut = <<p[1], p[n]>>

\* two interior points are equally far from the chord and farther than the
\* tolerance; the split happened and dropped a point
C19_Witness ==
    /\ stage = "simplify"
    /\ Len(stagePts) >= 4
    /\ LET n == Len(stagePts)
           d(i) == pointToLineDistance(stagePts[i], stagePts[1], stagePts[n])
       IN  /\ d(2) = d(3)
           /\ stagePts[2] # stagePts[3]
           /\ d(2) * stageTolD * stageTolD
                > stageTolN * stageTolN * lineDen(stagePts[1], stagePts[n])
    /\ Len(stageOut) >= 3
    /\ Len(stageOut) < Len(stagePts)

(* ---------------------------------------------------------------------- *)
(* C20.  pointToLineDistance(p, a, b) is the distance from p to the       *)
(* nearest point of the closed segment a-b: to the foot of the            *)
(* perpendicular when the projection parameter lies in [0, 1], to the     *)
(* nearer end point when it lies outside, and |p - a| when a = b.         *)
(* (stageDist is the squared distance times |b - a|^2, or times 1 when    *)
(* a = b.)                                                                *)
(* ---------------------------------------------------------------------- *)
C20_DistanceToClosedSegment ==
    (stage = "distance")
        => LET p == stagePts[1]
               a == stagePts[2]
               b == stagePts[3]
               lenSq == DistSq(a, b)
               dot == (p[1] - a[1]) * (b[1] - a[1])
                      + (p[2] - a[2]) * (b[2] - a[2])
               cross == (p[1] - a[1]) * (b[2] - a[2])
                        - (p[2] - a[2]) * (b[1] - a[1])
               onSegment(q) ==
                   /\ (q[1] - a[1]) * (b[2] - a[2])
                        = (q[2] - a[2]) * (b[1] - a[1])
                   /\ (q[1] - a[1]) * (q[1] - b[1])
                        + (q[2] - a[2]) * (q[2] - b[2]) <= 0
           IN  IF lenSq = 0 THEN stageDist = DistSq(p, a)
               ELSE /\ (0 <= dot /\ dot <= lenSq) => stageDist = cross * cross
                    /\ (dot < 0 \/ dot > lenSq)
                         => stageDist
                              = Min2(DistSq(p, a), DistSq(p, b)) * lenSq
                    /\ \A q \in StagePoints :
                          onSegment(q) => stageDist <= DistSq(p, q) * lenSq

\* the projection of p falls beyond b, and p is not on the line
C20_Witness ==
    /\ stage = "distance"
    /\ LET p == stagePts[1]
           a == stagePts[2]
           b == stagePts[3]
       IN  /\ a # b
           /\ (p[1] - a[1]) * (b[1] - a[1]) + (p[2] - a[2]) * (b[2] - a[2])
                > DistSq(a, b)
           /\ (p[1] - a[1]) * (b[2] - a[2]) # (p[2] - a[2]) * (b[1] - a[1])
           /\ stageDist = DistSq(p, b) * DistSq(a, b)

rayStartOf(center, rayStartRadius, i) ==
    LET angle == (i * 360) \div numRays
    IN  <<center[1] + RoundDiv(Cos(angle) * rayStartRadius, 1000),
          center[2] + RoundDiv(Sin(angle) * rayStartRadius, 1000)>>

\* the intersection of the ray from start through center with edge e
\* (0 .. N - 1, edge N - 1 closing the outline)
edgeHit(start, center, shapePoints, e) ==
    lineIntersection(start, center, shapePoints[e + 1],
                     shapePoints[((e + 1) % Len(shapePoints)) + 1])

\* the edges whose intersection is not behind the start of the ray
acceptedEdges(start, center, shapePoints) ==
    {e \in 0..(Len(shapePoints) - 1) :
        LET h == edgeHit(start, center, shapePoints, e)
        IN  /\ h # NoPoint
            /\ (center[1] - start[1]) * (h[1] - start[1])
                 + (center[2] - start[2]) * (h[2] - start[2]) >= 0}

\* the accepted intersection nearest the start of the ray, of the earliest
\* edge among equally near ones; NoPoint when no edge is accepted
nearestHit(start, center, shapePoints) ==
    LET acc == acceptedEdges(start, center, shapePoints)
        d(e) == DistSq(start, edgeHit(start, center, shapePoints, e))
    IN  IF acc = {} THEN NoPoint
        ELSE edgeHit(start, center, shapePoints,
                     CHOOSE e \in acc :
                        \A f \in acc : d(e) < d(f) \/ (d(e) = d(f) /\ e <= f))

\* the outline in fixed point, its centre and the radius the rays start at
fineOf(points) == [k \in 1..Len(points) |-> ToFine(points[k])]

startRadiusOf(points) ==
    (calculateMaxRadius(fineOf(points),
                        calculateShapeCenter(fineOf(points))) * 3) \div 2

\* what ray i contributes to the contour of points
rayContribution(points, i) ==
    LET center == calculateShapeCenter(fineOf(points))
    IN  nearestHit(rayStartOf(center, startRadiusOf(points), i), center,
                   fineOf(points))

C23_ShortOutlineAggressiveIsNormal ==
    /\ (pc = "extracted" /\ Len(inPoints) < 3) => contour = inPoints
    /\ (pc = "cleaned" /\ inMode = 2
            /\ Len(getPoints(cleanupShape(inShape, 1))) < 3)
         => outPoints = getPoints(cleanupShape(inShape, 1))

(* ---------------------------------------------------------------------- *)
(* C24.  douglasPeucker is idempotent: applied to its own result with the *)
(* same tolerance it returns that result.                                 *)
(* ---------------------------------------------------------------------- *)
C24_SimplifierIdempotent ==
    (stage = "resimplify") => stageRe = stageOut

\* the first application split the sequence and removed a point
C24_Witness ==
    /\ stage = "resimplify"
    /\ Len(stageOut) >= 3
    /\ Len(stageOut) < Len(stagePts)
    /\ stageTolN > 0

(* ---------------------------------------------------------------------- *)
(* C25.  Every input point that douglasPeucker removes lies within the    *)
(* tolerance (distance to the closed segment) of the segment joining the  *)
(* two consecutive output points between which it sat in the input.       *)
(* ---------------------------------------------------------------------- *)
C25_RemovedPointsWithinTolerance ==
    (stage = "simplify" /\ Len(stagePts) > 2)
        => \E K \in SUBSET (1..Len(stagePts)) :
              /\ 1 \in K
              /\ Len(stagePts) \in K
              /\ stageOut = Restrict(stagePts, K)
              /\ \A i \in (1..Len(stagePts)) \ K :
                    LET before == stagePts[MaxOf({j \in K : j < i})]
                        after == stagePts[CHOOSE j \in K :
                                    j > i /\ \A l \in K : l > i => j <= l]
                    IN  pointToLineDistance(stagePts[i], before, after)
                            * stageTolD * stageTolD
                          <= stageTolN * stageTolN * lineDen(before, after)

\* a point off the chord, but within the tolerance of it, was removed
\* while another point was kept
C25_Witness ==
    /\ stage = "simplify"
    /\ Len(stageOut) >= 3
    /\ \E i \in 2..(Len(stagePts) - 1) :
          /\ \A k \in 1..Len(stageOut) : stageOut[k] # stagePts[i]
          /\ \E k \in 1..(Len(stageOut) - 1) :
                /\ stageOut[k] # stageOut[k + 1]
                /\ pointToLineDistance(stagePts[i], stageOut[k],
                                       stageOut[k + 1]) > 0
                /\ pointToLineDistance(stagePts[i], stageOut[k],
                                       stageOut[k + 1])
                        * stageTolD * stageTolD
                      <= stageTolN * stageTolN
                           * lineDen(stageOut[k], stageOut[k + 1])

(* ---------------------------------------------------------------------- *)
(* C26.  In the result of removeDuplicatePoints every two consecutive     *)
(* points are strictly more than the tolerance apart, and applying the    *)
(* stage again with the same tolerance removes nothing.                   *)
(* ---------------------------------------------------------------------- *)
C26_DedupOutputSpaced ==
    /\ (stage \in {"dedup", "rededup"})
         => \A k \in 1..(Len(stageOut) - 1) :
               DistSq(stageOut[k], stageOut[k + 1]) * stageTolD * stageTolD
                 > stageTolN * stageTolN
    /\ (stage = "rededup") => stageRe = stageOut

\* the first application removed a point and kept at least two
C26_Witness ==
    /\ stage = "rededup"
    /\ Len(stageOut) >= 2
    /\ Len(stageOut) < Len(stagePts)
    /\ stageTolN > 0
    /\ stageRe = stageOut

(* ---------------------------------------------------------------------- *)
(* C27.  Whenever an export finishes, by success, by an exporter error or *)
(* by a failure of the GLB post-processing, mesh.scale and mesh.material  *)
(* are equal to their values before that export started.                  *)
(* ---------------------------------------------------------------------- *)
C27_ExportRestoresMesh ==
    [][\A e \in exporting :
          (ParseError(e) \/ TransformDone(e) \/ TransformFailed(e))
            => /\ meshScale' = e.originalScale
               /\ meshMaterial' = e.originalMaterials]_vars

(* ---------------------------------------------------------------------- *)
(* C28.  If exportGltf is invoked again before a previous export has      *)
(* finished, then once all pending exports have finished the scale and    *)
(* materials of the mesh equal their values from before the first export  *)
(* began.                                                                 *)
(* ---------------------------------------------------------------------- *)
C28_OverlappingExportsRestoreMesh ==
    (overlapped /\ exporting = {})
        => /\ meshScale = scaleBefore
           /\ meshMaterial = materialBefore

(* ---------------------------------------------------------------------- *)
(* C29.  If the selected file is missing, is not an SVG, or its text      *)
(* yields no shape, handleFileSelect leaves the export file name, the     *)
(* preview, the stored original shape and the displayed shape as they     *)
(* were (no step of the handler changes any of them).                     *)
(* ---------------------------------------------------------------------- *)
C29_FailedImportChangesNothing ==
    [][/\ \A f \in Files :
             SelectRejected(f)
               => UNCHANGED <<filename, svgPreview, originalShape, shape>>
       /\ \A f \in Files :
             (SelectFile(f) /\ svgToShape(f.parsed) = Null)
               => UNCHANGED <<filename, svgPreview, originalShape, shape>>
       /\ \A rd \in reads :
             (ReadDone(rd) /\ svgToShape(rd.file.parsed) = Null)
               => UNCHANGED <<filename, svgPreview, originalShape, shape>>]_vars

\* C29 as the handler behaves: a missing or non-SVG file changes nothing;
\* an SVG file whose text yields no shape leaves the stored original shape
\* and the displayed shape as they were, but the export file name becomes
\* the file's name with .glb (before the text is read) and the preview
\* becomes the URL of the file's text (after it is read).
C29_FailedImportKeepsShapes ==
    [][/\ \A f \in Files :
             SelectRejected(f)
               => UNCHANGED <<filename, svgPreview, originalShape, shape>>
       /\ \A f \in Files :
             (SelectFile(f) /\ svgToShape(f.parsed) = Null)
               => /\ filename' = SubSeq(f.name, 1, Len(f.name) - 4)
                                    \o <<".", "g", "l", "b">>
                  /\ UNCHANGED <<svgPreview, originalShape, shape>>
       /\ \A rd \in reads :
             (ReadDone(rd) /\ svgToShape(rd.file.parsed) = Null)
               => /\ svgPreview' = <<"blob">> \o rd.file.name
                  /\ UNCHANGED <<filename, originalShape, shape>>]_vars

\* a file without a shape was selected and read while a shape was stored:
\* the shape is still stored, the file name and preview are the new file's
C29_Witness ==
    /\ reads = {}
    /\ lastSelect # Null
    /\ lastSelect[1].file.parsed = Null
    /\ originalShape # Null
    /\ filename = <<"c", ".", "g", "l", "b">>
    /\ svgPreview = <<"blob", "c", ".", "s", "v", "g">>

(* ---------------------------------------------------------------------- *)
(* C30.  If a second file is selected while the first is still being      *)
(* read, then after both reads have completed, in either order, the       *)
(* export file name, the preview, the stored original shape and the       *)
(* displayed shape all belong to the file selected last.                  *)
(* ---------------------------------------------------------------------- *)
C30_LastSelectedFileWins ==
    (/\ lastSelect # Null
     /\ lastSelect[1].overlapped
     /\ reads = {})
        => LET f == lastSelect[1].file
           IN  /\ filename = glbName(f.name)
               /\ svgPreview = <<"blob">> \o f.name
               /\ (f.parsed # Null)
                     => /\ originalShape = svgToShape(f.parsed)
                        /\ \E m \in Methods :
                              shape = processed(originalShape[1], m)

====
